---- MODULE Spec2Model ----
\* Booking lifecycle of the tour-booking application: the in-memory store
\* (MemStorage), the booking schema and the HTTP routes that drive it.
EXTENDS Integers, Sequences, FiniteSets, TLC

VARIABLES
    experiences,  \* MemStorage.experiences: Map<string, Experience>, in insertion order
    bookings,     \* MemStorage.bookings: Map<string, Booking>, in insertion order
    uuidCount,    \* number of identifiers randomUUID() has handed out so far
    now,          \* the wall clock read by new Date() and Date.now()
    issued,       \* the bookings createBooking has returned to its callers, in order
    ret,          \* the last operation, its arguments and what it returned
    requests,     \* the route handlers that have run up to an await or to their end, in
                  \* the order they were entered
    wizard,       \* BookingForm: its useState values, the form values and the nextStep
                  \* calls that are at an await
    paymentForm   \* PaymentForm: its useState values while it is mounted and the
                  \* handleSubmit calls that are at an await

vars == <<experiences, bookings, uuidCount, now, issued, ret, requests, wizard, paymentForm>>

----------------------------------------------------------------------------
\* Bounds of the model

MaxBookings == 2    \* createBooking calls explored
TicksPerYear == 1   \* clock ticks that make up one calendar year
EpochYear == 2025   \* calendar year at clock reading 0

\* clock readings that are explored: the last instant of one year, the first of the next
ClockReadings == {0, 1}

\* outcomes of Math.floor(Math.random() * 999999) that are explored
RandomDraws == {42, 999998}

----------------------------------------------------------------------------
\* JavaScript values

\* the value of a missing key or argument, and null, among string values
undefined == "<undefined>"
null == "<null>"
\* undefined where an object is expected
undefinedObject == [undefined |-> TRUE]

\* !v for a string-or-absent value: undefined, null and "" are falsy
Falsy(v) == v \in {undefined, null, ""}

\* a || b
Or(a, b) == IF Falsy(a) THEN b ELSE a

DigitChars == <<"0", "1", "2", "3", "4", "5", "6", "7", "8", "9">>

\* String(n) for a non-negative integer n
RECURSIVE String(_)
String(n) ==
    IF n < 10 THEN DigitChars[n + 1]
    ELSE String(n \div 10) \o DigitChars[(n % 10) + 1]

\* s.padStart(targetLength, padString) for a one-character padString
RECURSIVE padStart(_, _, _)
padStart(s, targetLength, padString) ==
    IF Len(s) >= targetLength THEN s
    ELSE padStart(padString \o s, targetLength, padString)

Digits == {DigitChars[i] : i \in 1..10}

\* every character of s is a decimal digit
IsDigits(s) == \A i \in 1..Len(s) : SubSeq(s, i, i) \in Digits

\* the number a string of decimal digits denotes
RECURSIVE ParseDigits(_)
ParseDigits(s) ==
    IF s = "" THEN 0
    ELSE 10 * ParseDigits(SubSeq(s, 1, Len(s) - 1))
         + (CHOOSE d \in 0..9 : DigitChars[d + 1] = SubSeq(s, Len(s), Len(s)))

\* z.string().email(): some "@" with text on both sides
WellFormedEmail(s) ==
    \E i \in 2..(Len(s) - 1) : SubSeq(s, i, i) = "@"

\* new Date().getFullYear() when the clock reads t
getFullYear(t) == EpochYear + (t \div TicksPerYear)

\* a generator that hands out the same identifier on every call
uuidRepeating(n) == "uuid-" \o String(1)

\* the n-th identifier produced by randomUUID(): distinct for distinct n
uuid(n) == "uuid-" \o String(n)

----------------------------------------------------------------------------
\* Map<K, V>: a sequence of entries in insertion order

MapKeys(m) == {m[i].key : i \in 1..Len(m)}

MapHas(m, k) == k \in MapKeys(m)

\* m.get(k)
MapGet(m, k) ==
    IF MapHas(m, k)
    THEN m[CHOOSE i \in 1..Len(m) : m[i].key = k].value
    ELSE undefinedObject

\* m.set(k, v): an existing key keeps its position, a new key is appended
MapSet(m, k, v) ==
    IF MapHas(m, k)
    THEN [i \in 1..Len(m) |-> IF m[i].key = k THEN [key |-> k, value |-> v] ELSE m[i]]
    ELSE Append(m, [key |-> k, value |-> v])

\* Array.from(m.values())
MapValues(m) == [i \in 1..Len(m) |-> m[i].value]

\* array.find(pred) for the predicate "field referenceNumber equals ref"
FindByReference(array, ref) ==
    IF \E i \in 1..Len(array) : array[i].referenceNumber = ref
    THEN array[CHOOSE i \in 1..Len(array) :
                 /\ array[i].referenceNumber = ref
                 /\ \A j \in 1..(i - 1) : array[j].referenceNumber # ref]
    ELSE undefinedObject

\* { ...a, ...b }: the keys of both, b's value where both have the key
Spread(a, b) ==
    [k \in (DOMAIN a) \cup (DOMAIN b) |-> IF k \in DOMAIN b THEN b[k] ELSE a[k]]

----------------------------------------------------------------------------
\* shared/schema.ts and the seeded catalog

\* the values the comment on bookings.paymentStatus and the spec enumerate
PaymentStatuses == {"pending", "processing", "completed", "failed"}

\* the columns of the bookings table
BookingColumns ==
    {"id", "referenceNumber", "experienceId", "firstName", "lastName", "email",
     "phone", "checkinDate", "checkoutDate", "participants", "specialRequests",
     "totalAmount", "paymentStatus", "stripePaymentIntentId", "createdAt"}

\* the columns insertBookingSchema omits: the store assigns them
OmittedColumns ==
    {"id", "referenceNumber", "createdAt", "paymentStatus", "stripePaymentIntentId"}

\* the columns whose value only updateBookingPaymentStatus writes after creation
PaymentColumns == {"paymentStatus", "stripePaymentIntentId"}

defaultExperiences ==
    << [id |-> "meditation-retreats", name |-> "Meditation Retreats",
        description |-> "Join guided meditation sessions with Buddhist monks in serene monastery settings.",
        price |-> "120.00", duration |-> "3-7 days",
        image |-> "https://images.unsplash.com/photo-1506905925346-21bda4d32df4?ixlib=rb-4.0.3&auto=format&fit=crop&w=600&h=300",
        type |-> "meditation-retreats"],
       [id |-> "monastery-treks", name |-> "Monastery Treks",
        description |-> "Embark on scenic treks to remote monasteries through pristine Himalayan landscapes.",
        price |-> "200.00", duration |-> "5-10 days",
        image |-> "https://images.unsplash.com/photo-1544735716-392fe2489ffa?ixlib=rb-4.0.3&auto=format&fit=crop&w=600&h=300",
        type |-> "monastery-treks"],
       [id |-> "cultural-workshops", name |-> "Cultural Workshops",
        description |-> "Learn traditional Buddhist arts, crafts, and philosophy from local masters.",
        price |-> "80.00", duration |-> "2-5 days",
        image |-> "https://images.unsplash.com/photo-1578662996442-48f60103fc96?ixlib=rb-4.0.3&auto=format&fit=crop&w=600&h=300",
        type |-> "cultural-workshops"],
       [id |-> "sunrise-tours", name |-> "Sunrise Tours",
        description |-> "Witness breathtaking sunrises over the Himalayas from monastery viewpoints.",
        price |-> "60.00", duration |-> "1-2 days",
        image |-> "https://images.unsplash.com/photo-1506905925346-21bda4d32df4?ixlib=rb-4.0.3&auto=format&fit=crop&w=600&h=300",
        type |-> "sunrise-tours"] >>

\* defaultExperiences.forEach(exp => this.experiences.set(exp.id, exp)) on an empty map
RECURSIVE initializeExperiences(_, _)
initializeExperiences(m, array) ==
    IF array = <<>> THEN m
    ELSE initializeExperiences(MapSet(m, Head(array).id, Head(array)), Tail(array))

----------------------------------------------------------------------------
\* MemStorage operations, as functions of the bookings map

\* getAllExperiences that lists the newest entry first
getAllExperiencesNewestFirst(m) == [i \in 1..Len(m) |-> m[Len(m) + 1 - i].value]

getAllExperiences(m) == MapValues(m)

getExperience(m, id) == MapGet(m, id)

getBooking(m, id) == MapGet(m, id)

getBookingByReference(m, referenceNumber) ==
    FindByReference(MapValues(m), referenceNumber)

\* the reference number without the zero padding
makeReferenceNumberUnpadded(year, draw) ==
    "SM-" \o String(year) \o "-" \o String(draw)

\* the reference number built from the year and the random draw
makeReferenceNumber(year, draw) ==
    "SM-" \o String(year) \o "-" \o padStart(String(draw), 6, "0")

\* createBooking that files the booking under its reference number
createBookingKeyedByReference(m, insertBooking, id, draw, t) ==
    LET booking ==
            Spread(insertBooking,
                   [id |-> id,
                    referenceNumber |-> makeReferenceNumber(getFullYear(t), draw),
                    paymentStatus |-> "pending",
                    stripePaymentIntentId |-> null,
                    specialRequests |-> Or(insertBooking.specialRequests, null),
                    createdAt |-> t])
    IN  [bookings |-> MapSet(m, booking.referenceNumber, booking), result |-> booking]

\* createBooking: id is randomUUID(), draw is Math.floor(Math.random() * 999999),
\* t is the clock reading of new Date()
createBooking(m, insertBooking, id, draw, t) ==
    LET booking ==
            Spread(insertBooking,
                   [id |-> id,
                    referenceNumber |-> makeReferenceNumber(getFullYear(t), draw),
                    paymentStatus |-> "pending",
                    stripePaymentIntentId |-> null,
                    specialRequests |-> Or(insertBooking.specialRequests, null),
                    createdAt |-> t])
    IN  [bookings |-> MapSet(m, id, booking), result |-> booking]

\* updateBookingPaymentStatus that always overwrites the payment-intent id
updateBookingPaymentStatusOverwriting(m, id, status, paymentIntentId) ==
    LET booking == MapGet(m, id) IN
    IF booking = undefinedObject
    THEN [bookings |-> m, result |-> undefinedObject]
    ELSE LET updatedBooking ==
                 Spread(booking,
                        [paymentStatus |-> status,
                         stripePaymentIntentId |->
                             IF paymentIntentId = undefined THEN null ELSE paymentIntentId])
         IN  [bookings |-> MapSet(m, id, updatedBooking), result |-> updatedBooking]

\* updateBookingPaymentStatus that files a record when the id is unknown
updateBookingPaymentStatusUpserting(m, id, status, paymentIntentId) ==
    LET booking == MapGet(m, id)
        updatedBooking ==
            IF booking = undefinedObject
            THEN Spread([k \in BookingColumns |-> null],
                        [id |-> id, paymentStatus |-> status,
                         stripePaymentIntentId |-> Or(paymentIntentId, null)])
            ELSE Spread(booking,
                        [paymentStatus |-> status,
                         stripePaymentIntentId |->
                             Or(paymentIntentId, booking.stripePaymentIntentId)])
    IN  [bookings |-> MapSet(m, id, updatedBooking), result |-> updatedBooking]

\* updateBookingPaymentStatus that writes the status of every stored booking
updateBookingPaymentStatusOfAll(m, id, status, paymentIntentId) ==
    LET booking == MapGet(m, id) IN
    IF booking = undefinedObject
    THEN [bookings |-> m, result |-> undefinedObject]
    ELSE LET updatedBooking ==
                 Spread(booking,
                        [paymentStatus |-> status,
                         stripePaymentIntentId |->
                             Or(paymentIntentId, booking.stripePaymentIntentId)])
         IN  [bookings |->
                  [i \in 1..Len(m) |->
                      [key |-> m[i].key,
                       value |-> IF m[i].key = id THEN updatedBooking
                                 ELSE Spread(m[i].value, [paymentStatus |-> status])]],
              result |-> updatedBooking]

updateBookingPaymentStatus(m, id, status, paymentIntentId) ==
    LET booking == MapGet(m, id) IN
    IF booking = undefinedObject
    THEN [bookings |-> m, result |-> undefinedObject]
    ELSE LET updatedBooking ==
                 Spread(booking,
                        [paymentStatus |-> status,
                         stripePaymentIntentId |->
                             Or(paymentIntentId, booking.stripePaymentIntentId)])
         IN  [bookings |-> MapSet(m, id, updatedBooking), result |-> updatedBooking]

----------------------------------------------------------------------------
\* Callers of the store

\* the booking of the spec's scenario, as the validated InsertBooking
scenarioBooking ==
    [experienceId |-> "meditation-retreats", checkinDate |-> "2025-01-01",
     checkoutDate |-> "2025-01-03", participants |-> 2, firstName |-> "A",
     lastName |-> "B", email |-> "a@b.com", phone |-> "123",
     specialRequests |-> undefined, totalAmount |-> "240.00"]

\* InsertBooking values callers pass to createBooking
InsertBookings ==
    { scenarioBooking,
      [scenarioBooking EXCEPT !.specialRequests = ""],
      [scenarioBooking EXCEPT !.specialRequests = "Vegetarian meals",
                              !.experienceId = "sunrise-tours",
                              !.participants = 1, !.totalAmount = "120.00"] }

\* identifiers callers look up: every identifier the generator may produce in
\* the run, and one it never produces
LookupIds == {uuid(n) : n \in 1..MaxBookings} \cup {"no-such-id"}

\* reference numbers callers look up
LookupReferences ==
    {makeReferenceNumber(EpochYear, d) : d \in RandomDraws} \cup {"SM-2024-001234"}

\* status arguments callers pass to updateBookingPaymentStatus
StatusArguments == {"failed"}

\* paymentIntentId arguments callers pass to updateBookingPaymentStatus
PaymentIntentArguments == {undefined, "", "pi_mock_0"}

----------------------------------------------------------------------------
\* The browser's components as they are first rendered

\* a state value that holds null
nullObject == [null |-> TRUE]

\* useForm defaultValues
defaultValues ==
    [experienceId |-> "", checkinDate |-> "", checkoutDate |-> "", participants |-> 1,
     firstName |-> "", lastName |-> "", email |-> "", phone |-> "",
     specialRequests |-> "", totalAmount |-> "0"]

\* BookingForm's useState initial values; calls holds the nextStep calls at an await
initialBookingForm ==
    [currentStep |-> 1, selectedExperience |-> nullObject, clientSecret |-> "",
     bookingId |-> "", confirmedBooking |-> nullObject, form |-> defaultValues,
     calls |-> <<>>]

\* useState initial cardData
emptyCard == [number |-> "", expiry |-> "", cvc |-> "", name |-> ""]

\* PaymentForm before it is mounted; instance counts its mounts, submits holds the
\* handleSubmit calls at an await
initialPaymentForm ==
    [mounted |-> FALSE, instance |-> 0, isProcessing |-> FALSE, termsAccepted |-> FALSE,
     cardData |-> emptyCard, submits |-> <<>>]

----------------------------------------------------------------------------
\* The store driven directly through its interface (IStorage)

Init ==
    /\ experiences = initializeExperiences(<<>>, defaultExperiences)
    /\ bookings = <<>>
    /\ uuidCount = 0
    /\ now = 0
    /\ issued = <<>>
    /\ ret = [op |-> "constructor"]
    /\ requests = <<>>
    /\ wizard = initialBookingForm
    /\ paymentForm = initialPaymentForm

\* time passes
Tick ==
    /\ now + 1 \in ClockReadings
    /\ now' = now + 1
    /\ UNCHANGED <<experiences, bookings, uuidCount, issued, ret, requests, wizard, paymentForm>>

CreateBooking ==
    /\ uuidCount < MaxBookings
    /\ \E insertBooking \in InsertBookings, draw \in RandomDraws :
         LET r == createBooking(bookings, insertBooking, uuid(uuidCount + 1), draw, now) IN
         /\ bookings' = r.bookings
         /\ issued' = Append(issued, r.result)
         /\ ret' = [op |-> "createBooking", insertBooking |-> insertBooking,
                    value |-> r.result]
    /\ uuidCount' = uuidCount + 1
    /\ UNCHANGED <<experiences, now, requests, wizard, paymentForm>>

UpdateBookingPaymentStatus ==
    /\ \E id \in LookupIds, status \in StatusArguments,
          paymentIntentId \in PaymentIntentArguments :
         LET r == updateBookingPaymentStatus(bookings, id, status, paymentIntentId) IN
         /\ bookings' = r.bookings
         /\ ret' = [op |-> "updateBookingPaymentStatus", id |-> id, status |-> status,
                    paymentIntentId |-> paymentIntentId, value |-> r.result]
    /\ UNCHANGED <<experiences, uuidCount, now, issued, requests, wizard, paymentForm>>

GetBooking ==
    /\ \E id \in LookupIds :
         ret' = [op |-> "getBooking", id |-> id, value |-> getBooking(bookings, id)]
    /\ UNCHANGED <<experiences, bookings, uuidCount, now, issued, requests, wizard, paymentForm>>

GetBookingByReference ==
    /\ \E referenceNumber \in LookupReferences :
         ret' = [op |-> "getBookingByReference", referenceNumber |-> referenceNumber,
                 value |-> getBookingByReference(bookings, referenceNumber)]
    /\ UNCHANGED <<experiences, bookings, uuidCount, now, issued, requests, wizard, paymentForm>>

GetAllExperiences ==
    /\ ret' = [op |-> "getAllExperiences", value |-> getAllExperiences(experiences)]
    /\ UNCHANGED <<experiences, bookings, uuidCount, now, issued, requests, wizard, paymentForm>>

GetExperience ==
    /\ \E id \in {"sunrise-tours", "no-such-id"} :
         ret' = [op |-> "getExperience", id |-> id, value |-> getExperience(experiences, id)]
    /\ UNCHANGED <<experiences, bookings, uuidCount, now, issued, requests, wizard, paymentForm>>

StoreNext ==
    \/ Tick
    \/ CreateBooking
    \/ UpdateBookingPaymentStatus
    \/ GetBooking
    \/ GetBookingByReference
    \/ GetAllExperiences
    \/ GetExperience

StoreSpec == Init /\ [][StoreNext]_vars

----------------------------------------------------------------------------
\* JSON request bodies: a record of the keys that are present, each value
\* tagged with its JavaScript type

Str(s) == [str |-> s]
Num(n) == [num |-> n]
Absent == [undef |-> TRUE]

IsStr(v) == DOMAIN v = {"str"}
IsNum(v) == DOMAIN v = {"num"}

\* body[k], undefined when the key is missing
Field(body, k) == IF k \in DOMAIN body THEN body[k] ELSE Absent

\* !v
Not(v) ==
    \/ v = Absent
    \/ IsStr(v) /\ v.str = ""
    \/ IsNum(v) /\ v.num = 0

\* the typed string of a body value that is a string, undefined otherwise
AsString(v) == IF IsStr(v) THEN v.str ELSE undefined

----------------------------------------------------------------------------
\* insertBookingSchema = createInsertSchema(bookings).omit({...})

\* notNull text, varchar and decimal columns: z.string()
StringColumns ==
    {"experienceId", "firstName", "lastName", "email", "phone", "checkinDate",
     "checkoutDate", "totalAmount"}

\* the keys of insertBookingSchema
InsertColumns == BookingColumns \ OmittedColumns

\* the issue zod raises for key k of body, "" when the key passes
Issue(body, k) ==
    LET v == Field(body, k) IN
    IF k \in StringColumns
    THEN IF IsStr(v) THEN "" ELSE IF v = Absent THEN "Required" ELSE "invalid_type"
    ELSE IF k = "participants"
    THEN IF IsNum(v) THEN "" ELSE IF v = Absent THEN "Required" ELSE "invalid_type"
    ELSE \* specialRequests: nullable and optional
         IF IsStr(v) \/ v = Absent THEN "" ELSE "invalid_type"

\* ZodError.errors: one issue per failing key, all of them
ZodErrors(body) ==
    {[path |-> k, message |-> Issue(body, k)] : k \in {c \in InsertColumns : Issue(body, c) # ""}}

\* the value insertBookingSchema.parse returns when no key fails: the schema's
\* keys only, each with its typed value
Parsed(body) ==
    [k \in InsertColumns |->
        IF k \in StringColumns THEN body[k].str
        ELSE IF k = "participants" THEN body[k].num
        ELSE AsString(Field(body, k))]

----------------------------------------------------------------------------
\* The routes of registerRoutes: each maps the store and a request to the new
\* store and the response

getExperiencesRoute(m) ==
    [status |-> 200, body |-> getAllExperiences(m)]

getExperienceRoute(m, id) ==
    LET experience == getExperience(m, id) IN
    IF experience = undefinedObject
    THEN [status |-> 404, body |-> [message |-> "Experience not found"]]
    ELSE [status |-> 200, body |-> experience]

\* POST /api/bookings that stores the body as sent and validates afterwards
postBookingsRouteStoringFirst(m, body, id, draw, t) ==
    LET r == createBooking(m, [k \in InsertColumns |-> AsString(Field(body, k))],
                           id, draw, t) IN
    IF ZodErrors(body) # {}
    THEN [bookings |-> r.bookings, status |-> 400, created |-> FALSE,
          body |-> [message |-> "Validation error", errors |-> ZodErrors(body)]]
    ELSE [bookings |-> r.bookings, status |-> 201, created |-> TRUE, body |-> r.result]

\* POST /api/bookings that copies the string values of the body over the
\* booking the store made
postBookingsRouteTrusting(m, body, id, draw, t) ==
    IF ZodErrors(body) # {}
    THEN [bookings |-> m, status |-> 400, created |-> FALSE,
          body |-> [message |-> "Validation error", errors |-> ZodErrors(body)]]
    ELSE LET r == createBooking(m, Parsed(body), id, draw, t)
             sent == {k \in (DOMAIN body) \cap {"referenceNumber", "paymentStatus",
                                                "stripePaymentIntentId"} : IsStr(body[k])}
             booking == Spread(r.result, [k \in sent |-> body[k].str])
         IN
         [bookings |-> MapSet(m, id, booking), status |-> 201, created |-> TRUE,
          body |-> booking]

\* POST /api/bookings that refuses a body whose experienceId is not in the catalog
postBookingsRouteCheckingExperience(m, body, id, draw, t) ==
    IF ZodErrors(body) # {}
    THEN [bookings |-> m, status |-> 400, created |-> FALSE,
          body |-> [message |-> "Validation error", errors |-> ZodErrors(body)]]
    ELSE IF \A i \in 1..Len(defaultExperiences) :
                defaultExperiences[i].id # body.experienceId.str
    THEN [bookings |-> m, status |-> 404, created |-> FALSE,
          body |-> [message |-> "Experience not found"]]
    ELSE LET r == createBooking(m, Parsed(body), id, draw, t) IN
         [bookings |-> r.bookings, status |-> 201, created |-> TRUE, body |-> r.result]

postBookingsRoute(m, body, id, draw, t) ==
    IF ZodErrors(body) # {}
    THEN [bookings |-> m, status |-> 400, created |-> FALSE,
          body |-> [message |-> "Validation error", errors |-> ZodErrors(body)]]
    ELSE LET r == createBooking(m, Parsed(body), id, draw, t) IN
         [bookings |-> r.bookings, status |-> 201, created |-> TRUE, body |-> r.result]

\* GET /api/bookings/:reference that looks the parameter up as an identifier
getBookingRouteById(m, reference) ==
    LET booking == getBooking(m, reference) IN
    IF booking = undefinedObject
    THEN [status |-> 404, body |-> [message |-> "Booking not found"]]
    ELSE [status |-> 200, body |-> booking]

getBookingRoute(m, reference) ==
    LET booking == getBookingByReference(m, reference) IN
    IF booking = undefinedObject
    THEN [status |-> 404, body |-> [message |-> "Booking not found"]]
    ELSE [status |-> 200, body |-> booking]

\* `pi_mock_${Date.now()}`
mockPaymentIntentId(t) == "pi_mock_" \o String(t)

\* create-payment-intent that marks the booking before it looks at the amount
createPaymentIntentRouteUpdatingFirst(m, body, t) ==
    LET amount == Field(body, "amount")
        bookingId == Field(body, "bookingId")
        updated ==
            IF Not(bookingId) THEN m
            ELSE updateBookingPaymentStatus(m, AsString(bookingId), "processing",
                                            mockPaymentIntentId(t)).bookings
    IN
    IF Not(amount) \/ (IsNum(amount) /\ amount.num <= 0)
    THEN [bookings |-> updated, status |-> 400,
          body |-> [message |-> "Valid amount is required"]]
    ELSE [bookings |-> updated, status |-> 200,
          body |-> [clientSecret |-> mockPaymentIntentId(t) \o "_secret_mock",
                    paymentIntentId |-> mockPaymentIntentId(t)]]

\* create-payment-intent that stores the client secret as the payment-intent id
createPaymentIntentRouteStoringSecret(m, body, t) ==
    LET amount == Field(body, "amount")
        bookingId == Field(body, "bookingId")
    IN
    IF Not(amount) \/ (IsNum(amount) /\ amount.num <= 0)
    THEN [bookings |-> m, status |-> 400,
          body |-> [message |-> "Valid amount is required"]]
    ELSE [bookings |->
              IF Not(bookingId) THEN m
              ELSE updateBookingPaymentStatus(m, AsString(bookingId), "processing",
                                              mockPaymentIntentId(t) \o "_secret_mock").bookings,
          status |-> 200,
          body |-> [clientSecret |-> mockPaymentIntentId(t) \o "_secret_mock",
                    paymentIntentId |-> mockPaymentIntentId(t)]]

createPaymentIntentRoute(m, body, t) ==
    LET amount == Field(body, "amount")
        bookingId == Field(body, "bookingId")
    IN
    IF Not(amount) \/ (IsNum(amount) /\ amount.num <= 0)
    THEN [bookings |-> m, status |-> 400,
          body |-> [message |-> "Valid amount is required"]]
    ELSE [bookings |->
              IF Not(bookingId) THEN m
              ELSE updateBookingPaymentStatus(m, AsString(bookingId), "processing",
                                              mockPaymentIntentId(t)).bookings,
          status |-> 200,
          body |-> [clientSecret |-> mockPaymentIntentId(t) \o "_secret_mock",
                    paymentIntentId |-> mockPaymentIntentId(t)]]

\* confirm-payment that completes only a booking whose payment is in progress
confirmPaymentRouteGuarded(m, body) ==
    LET paymentIntentId == Field(body, "paymentIntentId")
        bookingId == Field(body, "bookingId")
    IN
    IF Not(paymentIntentId) \/ Not(bookingId)
    THEN [bookings |-> m, status |-> 400,
          body |-> [message |-> "Payment intent ID and booking ID are required"]]
    ELSE LET booking == getBooking(m, AsString(bookingId))
             r == IF booking # undefinedObject /\ booking.paymentStatus # "processing"
                  THEN [bookings |-> m, result |-> booking]
                  ELSE updateBookingPaymentStatus(m, AsString(bookingId), "completed",
                                                  AsString(paymentIntentId))
         IN
         [bookings |-> r.bookings, status |-> 200,
          body |-> [success |-> TRUE, booking |-> r.result, paymentStatus |-> "succeeded"]]

\* confirm-payment that declines every payment-intent id the server did not issue
confirmPaymentRouteDeclining(m, body) ==
    LET paymentIntentId == Field(body, "paymentIntentId")
        bookingId == Field(body, "bookingId")
    IN
    IF Not(paymentIntentId) \/ Not(bookingId)
    THEN [bookings |-> m, status |-> 400,
          body |-> [message |-> "Payment intent ID and booking ID are required"]]
    ELSE LET booking == getBooking(m, AsString(bookingId))
             issuedByServer == /\ booking # undefinedObject
                               /\ booking.stripePaymentIntentId = AsString(paymentIntentId)
             r == updateBookingPaymentStatus(m, AsString(bookingId),
                                             IF issuedByServer THEN "completed" ELSE "failed",
                                             AsString(paymentIntentId))
         IN
         [bookings |-> r.bookings, status |-> 200,
          body |-> [success |-> issuedByServer, booking |-> r.result,
                    paymentStatus |-> IF issuedByServer THEN "succeeded" ELSE "failed"]]

confirmPaymentRoute(m, body) ==
    LET paymentIntentId == Field(body, "paymentIntentId")
        bookingId == Field(body, "bookingId")
    IN
    IF Not(paymentIntentId) \/ Not(bookingId)
    THEN [bookings |-> m, status |-> 400,
          body |-> [message |-> "Payment intent ID and booking ID are required"]]
    ELSE LET r == updateBookingPaymentStatus(m, AsString(bookingId), "completed",
                                             AsString(paymentIntentId)) IN
         [bookings |-> r.bookings, status |-> 200,
          body |-> [success |-> TRUE, booking |-> r.result, paymentStatus |-> "succeeded"]]

----------------------------------------------------------------------------
\* HTTP clients

\* the request of the spec's scenario
scenarioBody ==
    [experienceId |-> Str("meditation-retreats"), checkinDate |-> Str("2025-01-01"),
     checkoutDate |-> Str("2025-01-03"), participants |-> Num(2),
     firstName |-> Str("A"), lastName |-> Str("B"), email |-> Str("a@b.com"),
     phone |-> Str("123"), totalAmount |-> Str("240.00")]

\* a request that names no stored experience, has no participant and no
\* well-formed email, and carries the columns the store assigns
oddBody ==
    [experienceId |-> Str("no-such-experience"), checkinDate |-> Str("2025-01-03"),
     checkoutDate |-> Str("2025-01-01"), participants |-> Num(0),
     firstName |-> Str("A"), lastName |-> Str("B"), email |-> Str("not-an-email"),
     phone |-> Str("123"), totalAmount |-> Str("0"),
     specialRequests |-> Str("Vegetarian meals"),
     id |-> Str("uuid-1"), referenceNumber |-> Str("SM-2024-001234"),
     paymentStatus |-> Str("completed"), stripePaymentIntentId |-> Str("pi_mine"),
     createdAt |-> Num(0)]

\* a request without email, with participants sent as a string
invalidBody ==
    [experienceId |-> Str("meditation-retreats"), checkinDate |-> Str("2025-01-01"),
     checkoutDate |-> Str("2025-01-03"), participants |-> Str("2"),
     firstName |-> Str("A"), lastName |-> Str("B"),
     phone |-> Str("123"), totalAmount |-> Str("240.00")]

BookingBodies == {scenarioBody, oddBody, invalidBody}

\* bookingId values of payment requests: every identifier the generator may
\* produce, and one it never produces
BookingIdValues == {Str(id) : id \in LookupIds}

\* requests with a positive amount, with and without a bookingId, and requests
\* for a booking with the amount missing, 0 and negative
PaymentIntentBodies ==
    {[amount |-> Num(240)], [bookingId |-> Str(uuid(1))],
     [amount |-> Num(0), bookingId |-> Str(uuid(1))],
     [amount |-> Num(-5), bookingId |-> Str(uuid(1))]}
    \cup {[amount |-> Num(240), bookingId |-> b] : b \in BookingIdValues}

\* requests with both fields, and requests with a field missing or empty
ConfirmPaymentBodies ==
    {[bookingId |-> Str(uuid(1))], [paymentIntentId |-> Str(""), bookingId |-> Str(uuid(1))],
     [paymentIntentId |-> Str("pi_client")],
     [paymentIntentId |-> Str("pi_client"), bookingId |-> Str("")]}
    \cup {[paymentIntentId |-> Str("pi_client"), bookingId |-> b] : b \in BookingIdValues}

----------------------------------------------------------------------------
\* The application: the store driven through its HTTP routes

GetExperiences ==
    /\ ret' = [op |-> "GET /api/experiences"] @@ getExperiencesRoute(experiences)
    /\ UNCHANGED <<experiences, bookings, uuidCount, now, issued, requests, wizard, paymentForm>>

GetExperienceById ==
    /\ \E id \in {"sunrise-tours", "no-such-experience"} :
         ret' = [op |-> "GET /api/experiences/:id", id |-> id]
                @@ getExperienceRoute(experiences, id)
    /\ UNCHANGED <<experiences, bookings, uuidCount, now, issued, requests, wizard, paymentForm>>

PostBookings ==
    /\ uuidCount < MaxBookings
    /\ \E body \in BookingBodies, draw \in RandomDraws :
         LET r == postBookingsRoute(bookings, body, uuid(uuidCount + 1), draw, now) IN
         /\ bookings' = r.bookings
         /\ uuidCount' = IF r.created THEN uuidCount + 1 ELSE uuidCount
         /\ issued' = IF r.created THEN Append(issued, r.body) ELSE issued
         /\ ret' = [op |-> "POST /api/bookings", request |-> body,
                    status |-> r.status, body |-> r.body]
    /\ UNCHANGED <<experiences, now, requests, wizard, paymentForm>>

GetBookingByRef ==
    /\ \E reference \in LookupReferences :
         ret' = [op |-> "GET /api/bookings/:reference", reference |-> reference]
                @@ getBookingRoute(bookings, reference)
    /\ UNCHANGED <<experiences, bookings, uuidCount, now, issued, requests, wizard, paymentForm>>

PostCreatePaymentIntent ==
    /\ \E body \in PaymentIntentBodies :
         LET r == createPaymentIntentRoute(bookings, body, now) IN
         /\ bookings' = r.bookings
         /\ ret' = [op |-> "POST /api/create-payment-intent", request |-> body,
                    status |-> r.status, body |-> r.body]
    /\ UNCHANGED <<experiences, uuidCount, now, issued, requests, wizard, paymentForm>>

PostConfirmPayment ==
    /\ \E body \in ConfirmPaymentBodies :
         LET r == confirmPaymentRoute(bookings, body) IN
         /\ bookings' = r.bookings
         /\ ret' = [op |-> "POST /api/confirm-payment", request |-> body,
                    status |-> r.status, body |-> r.body]
    /\ UNCHANGED <<experiences, uuidCount, now, issued, requests, wizard, paymentForm>>

Next ==
    \/ Tick
    \/ GetExperiences
    \/ GetExperienceById
    \/ PostBookings
    \/ GetBookingByRef
    \/ PostCreatePaymentIntent
    \/ PostConfirmPayment

Spec == Init /\ [][Next]_vars

----------------------------------------------------------------------------
\* Callers that keep the objects the store returns

\* the operations of IStorage that return a booking
ReturnsBooking ==
    {"createBooking", "getBooking", "getBookingByReference", "updateBookingPaymentStatus"}

\* the assignments a caller makes to a booking object it holds
CallerAssignments == {[column |-> "paymentStatus", value |-> "completed"]}

\* a caller assigns to a field of the booking the last operation returned to it.
\* createBooking and updateBookingPaymentStatus return the object they have put
\* into the map, the getters return what the map holds: the caller's object is
\* the map's object
CallerAssigns ==
    /\ ret.op \in ReturnsBooking
    /\ ret.value # undefinedObject
    /\ \E a \in CallerAssignments :
         LET booking == [ret.value EXCEPT ![a.column] = a.value] IN
         /\ bookings' = MapSet(bookings, ret.value.id, booking)
         /\ ret' = [op |-> "caller assignment", column |-> a.column, value |-> booking]
    /\ UNCHANGED <<experiences, uuidCount, now, issued, requests, wizard, paymentForm>>

AliasNext ==
    \/ Tick
    \/ CreateBooking
    \/ UpdateBookingPaymentStatus
    \/ GetBooking
    \/ GetBookingByReference
    \/ GetAllExperiences
    \/ GetExperience
    \/ CallerAssigns

AliasSpec == Init /\ [][AliasNext]_vars

----------------------------------------------------------------------------
\* Route handlers in flight together. A handler runs without interruption up to
\* an await and, after it, from the await on; the async methods of MemStorage
\* hold no await, so a call of one has read and written the map when it returns
\* its promise. Handlers suspended at an await are resumed in any order.

\* handlers entered in one run
MaxRequests == 3

\* the requests of concurrent clients
ConcurrentBookingBodies == {scenarioBody, invalidBody}

ConcurrentPaymentIntentBodies == {[amount |-> Num(240), bookingId |-> Str(uuid(1))]}

ConcurrentConfirmBodies ==
    {[paymentIntentId |-> Str("pi_client"), bookingId |-> Str(uuid(i))] : i \in 1..2}

\* POST /api/bookings up to `await storage.createBooking(validatedData)`, or to
\* the 400 of the catch block
EnterPostBookings ==
    /\ Len(requests) < MaxRequests
    /\ uuidCount < MaxBookings
    /\ \E body \in ConcurrentBookingBodies, draw \in RandomDraws :
         LET id == uuid(uuidCount + 1)
             r == postBookingsRoute(bookings, body, id, draw, now)
             handler == [op |-> "POST /api/bookings", request |-> body,
                         id |-> id, draw |-> draw, t |-> now,
                         pc |-> IF r.created THEN "await" ELSE "done",
                         response |-> [status |-> r.status, body |-> r.body]]
         IN
         /\ bookings' = r.bookings
         /\ uuidCount' = IF r.created THEN uuidCount + 1 ELSE uuidCount
         /\ issued' = IF r.created THEN Append(issued, r.body) ELSE issued
         /\ requests' = Append(requests, handler)
         /\ ret' = handler
    /\ UNCHANGED <<experiences, now, wizard, paymentForm>>

\* POST /api/create-payment-intent up to `await
\* storage.updateBookingPaymentStatus(...)`, or to its end when it awaits nothing
EnterCreatePaymentIntent ==
    /\ Len(requests) < MaxRequests
    /\ \E body \in ConcurrentPaymentIntentBodies :
         LET r == createPaymentIntentRoute(bookings, body, now)
             awaits == r.status = 200 /\ ~Not(Field(body, "bookingId"))
             handler == [op |-> "POST /api/create-payment-intent", request |-> body,
                         id |-> "", draw |-> 0, t |-> now,
                         pc |-> IF awaits THEN "await" ELSE "done",
                         response |-> [status |-> r.status, body |-> r.body]]
         IN
         /\ bookings' = r.bookings
         /\ requests' = Append(requests, handler)
         /\ ret' = handler
    /\ UNCHANGED <<experiences, uuidCount, now, issued, wizard, paymentForm>>

\* POST /api/confirm-payment up to `await storage.updateBookingPaymentStatus(...)`,
\* or to its 400
EnterConfirmPayment ==
    /\ Len(requests) < MaxRequests
    /\ \E body \in ConcurrentConfirmBodies :
         LET r == confirmPaymentRoute(bookings, body)
             handler == [op |-> "POST /api/confirm-payment", request |-> body,
                         id |-> "", draw |-> 0, t |-> now,
                         pc |-> IF r.status = 200 THEN "await" ELSE "done",
                         response |-> [status |-> r.status, body |-> r.body]]
         IN
         /\ bookings' = r.bookings
         /\ requests' = Append(requests, handler)
         /\ ret' = handler
    /\ UNCHANGED <<experiences, uuidCount, now, issued, wizard, paymentForm>>

\* the response a handler sends after its await: the values it held before the
\* await; create-payment-intent reads the clock again for the client secret
responseAfterAwait(handler, t) ==
    IF handler.op = "POST /api/create-payment-intent"
    THEN [handler.response EXCEPT
              !.body.clientSecret = mockPaymentIntentId(t) \o "_secret_mock"]
    ELSE handler.response

\* a handler suspended at its await runs to its end
Resume ==
    /\ \E i \in 1..Len(requests) :
         /\ requests[i].pc = "await"
         /\ LET handler == [requests[i] EXCEPT
                                !.pc = "done",
                                !.response = responseAfterAwait(requests[i], now)]
            IN
            /\ requests' = [requests EXCEPT ![i] = handler]
            /\ ret' = handler
    /\ UNCHANGED <<experiences, bookings, uuidCount, now, issued, wizard, paymentForm>>

ConcNext ==
    \/ Tick
    \/ EnterPostBookings
    \/ EnterCreatePaymentIntent
    \/ EnterConfirmPayment
    \/ Resume

ConcSpec == Init /\ [][ConcNext]_vars

----------------------------------------------------------------------------
\* The booking wizard: BookingForm and its PaymentForm in one browser, against
\* the routes. An async handler runs without interruption up to an await and,
\* after it, from the await on; clicks and responses arrive in any order.

\* seq without its i-th element
RemoveAt(seq, i) == SubSeq(seq, 1, i - 1) \o SubSeq(seq, i + 1, Len(seq))

\* parseFloat(s) for a price "<digits>.00", as all prices of the catalog are
parseFloat(s) == ParseDigits(SubSeq(s, 1, Len(s) - 3))

DaysBeforeMonth == <<0, 31, 59, 90, 120, 151, 181, 212, 243, 273, 304, 334>>

\* new Date(s).getTime() / (1000 * 3600 * 24) for s = "YYYY-MM-DD", counted from
\* the day before 0001-01-01 instead of 1970-01-01: only differences are used
dateDays(s) ==
    LET y == ParseDigits(SubSeq(s, 1, 4))
        m == ParseDigits(SubSeq(s, 6, 7))
        d == ParseDigits(SubSeq(s, 9, 10))
        leap == (y % 4 = 0 /\ y % 100 # 0) \/ y % 400 = 0
    IN 365 * (y - 1) + ((y - 1) \div 4) - ((y - 1) \div 100) + ((y - 1) \div 400)
       + DaysBeforeMonth[m] + (IF m > 2 /\ leap THEN 1 ELSE 0) + d

\* calculateTotal() with the selectedExperience of the render and the form values
\* calculateTotal() that multiplies by the day count as it is, without Math.max
calculateTotalUnclamped(selectedExperience, form) ==
    IF selectedExperience = nullObject THEN 0
    ELSE LET participants == IF form.participants = 0 THEN 1 ELSE form.participants
             checkin == form.checkinDate
             checkout == form.checkoutDate
         IN
         IF checkin # "" /\ checkout # ""
         THEN LET days == dateDays(checkout) - dateDays(checkin) IN
              parseFloat(selectedExperience.price) * participants * days
         ELSE parseFloat(selectedExperience.price) * participants

calculateTotal(selectedExperience, form) ==
    IF selectedExperience = nullObject THEN 0
    ELSE LET participants == IF form.participants = 0 THEN 1 ELSE form.participants
             checkin == form.checkinDate
             checkout == form.checkoutDate
         IN
         IF checkin # "" /\ checkout # ""
         THEN LET days == dateDays(checkout) - dateDays(checkin) IN
              parseFloat(selectedExperience.price) * participants
              * (IF days > 1 THEN days ELSE 1)
         ELSE parseFloat(selectedExperience.price) * participants

\* the fields nextStep passes to form.trigger
TriggerFields ==
    {"checkinDate", "checkoutDate", "participants", "firstName", "lastName", "email",
     "phone"}

\* bookingFormSchema on field k of the form values
FieldIsValid(form, k) ==
    IF k = "participants" THEN form[k] >= 1
    ELSE IF k = "email" THEN WellFormedEmail(form[k])
    ELSE IF k \in {"specialRequests", "totalAmount"} THEN TRUE
    ELSE Len(form[k]) >= 1

\* form.trigger(fields)
trigger(form, fields) == \A k \in fields : FieldIsValid(form, k)

\* JSON.stringify of the mutation's data as the route reads it
RequestBody(data) ==
    [k \in DOMAIN data |-> IF k = "participants" THEN Num(data[k]) ELSE Str(data[k])]

\* createBookingMutation.isPending || createPaymentIntentMutation.isPending
isPending(w) ==
    \E i \in 1..Len(w.calls) : w.calls[i].pc \in {"createBooking", "createPaymentIntent"}

\* PaymentForm after BookingForm has rendered step `step`: it is mounted, with
\* fresh state, when step 3 is entered and unmounted when step 3 is left
Rendered(step, pf) ==
    IF step = 3 /\ ~pf.mounted
    THEN [pf EXCEPT !.mounted = TRUE, !.instance = pf.instance + 1,
                    !.isProcessing = FALSE, !.termsAccepted = FALSE,
                    !.cardData = emptyCard]
    ELSE IF step # 3 /\ pf.mounted
    THEN [pf EXCEPT !.mounted = FALSE, !.isProcessing = FALSE, !.termsAccepted = FALSE,
                    !.cardData = emptyCard]
    ELSE pf

\* the experiences the visitor picks from the list of GET /api/experiences
SelectableExperiences == {"sunrise-tours"}

\* what the visitor enters on step 2
GuestDetails ==
    {[checkinDate |-> "2025-01-01", checkoutDate |-> "2025-01-03", participants |-> 2,
      firstName |-> "A", lastName |-> "B", email |-> "a@b.com", phone |-> "123"]}

\* what the visitor enters into the card fields
CardInputs ==
    {[number |-> "4242424242424242", expiry |-> "12/25", cvc |-> "123", name |-> "A B"],
     [number |-> "4242424242424242", expiry |-> "12/25", cvc |-> "123", name |-> ""]}

\* the random draw of the server while the wizard runs
WizardDraws == {42}

\* handleExperienceSelect, on an ExperienceCard of step 1
HandleExperienceSelect ==
    /\ wizard.currentStep = 1
    /\ \E id \in SelectableExperiences :
         /\ wizard' = [wizard EXCEPT !.selectedExperience = getExperience(experiences, id),
                                     !.form.experienceId = id]
         /\ ret' = [op |-> "handleExperienceSelect", id |-> id]
    /\ UNCHANGED <<experiences, bookings, uuidCount, now, issued, requests, paymentForm>>

\* the visitor fills the fields of step 2
FillDetails ==
    /\ wizard.currentStep = 2
    /\ \E details \in GuestDetails :
         /\ wizard' = [wizard EXCEPT !.form = Spread(wizard.form, details)]
         /\ ret' = [op |-> "input", details |-> details]
    /\ UNCHANGED <<experiences, bookings, uuidCount, now, issued, requests, paymentForm>>

\* nextStep up to its first await or to its end. The button is rendered below
\* step 4 and disabled while a mutation is pending; the call keeps the
\* currentStep and selectedExperience of the render it was made in
NextStep ==
    /\ wizard.currentStep < 4
    /\ ~isPending(wizard)
    /\ wizard.currentStep = 2 => uuidCount + Len(wizard.calls) < MaxBookings
    /\ LET currentStep == wizard.currentStep IN
       IF currentStep = 1 /\ wizard.selectedExperience = nullObject
       THEN /\ ret' = [op |-> "nextStep", currentStep |-> currentStep,
                       toast |-> "Selection Required"]
            /\ UNCHANGED <<wizard, paymentForm>>
       ELSE IF currentStep = 2
       THEN /\ wizard' = [wizard EXCEPT !.calls =
                              Append(@, [pc |-> "trigger", currentStep |-> currentStep,
                                         selectedExperience |-> wizard.selectedExperience])]
            /\ ret' = [op |-> "nextStep", currentStep |-> currentStep, pc |-> "trigger"]
            /\ UNCHANGED paymentForm
       ELSE /\ wizard' = [wizard EXCEPT !.currentStep = currentStep + 1]
            /\ paymentForm' = Rendered(currentStep + 1, paymentForm)
            /\ ret' = [op |-> "nextStep", currentStep |-> currentStep]
    /\ UNCHANGED <<experiences, bookings, uuidCount, now, issued, requests>>

\* nextStep from `await form.trigger(...)` to `await
\* createBookingMutation.mutateAsync(...)`, or to its return when the form is
\* not valid
FormTriggered ==
    /\ \E i \in 1..Len(wizard.calls) :
         LET call == wizard.calls[i]
             isValid == trigger(wizard.form, TriggerFields)
             formData == wizard.form
             totalAmount == calculateTotal(call.selectedExperience, wizard.form)
         IN
         /\ call.pc = "trigger"
         /\ wizard' = [wizard EXCEPT !.calls =
                IF isValid
                THEN [@ EXCEPT ![i] =
                         [pc |-> "createBooking", currentStep |-> call.currentStep,
                          totalAmount |-> totalAmount,
                          data |-> Spread(formData,
                                          [totalAmount |-> String(totalAmount)])]]
                ELSE RemoveAt(@, i)]
         /\ ret' = [op |-> "form.trigger", isValid |-> isValid]
    /\ UNCHANGED <<experiences, bookings, uuidCount, now, issued, requests, paymentForm>>

\* POST /api/bookings is handled and answered: createBookingMutation's onSuccess
\* and nextStep on to `await createPaymentIntentMutation.mutateAsync(...)`, or to
\* the catch block when the answer is not a 2xx
CreateBookingMutation ==
    /\ uuidCount < MaxBookings
    /\ \E i \in 1..Len(wizard.calls), draw \in WizardDraws :
         LET call == wizard.calls[i]
             body == RequestBody(call.data)
             r == postBookingsRoute(bookings, body, uuid(uuidCount + 1), draw, now)
         IN
         /\ call.pc = "createBooking"
         /\ bookings' = r.bookings
         /\ uuidCount' = IF r.created THEN uuidCount + 1 ELSE uuidCount
         /\ issued' = IF r.created THEN Append(issued, r.body) ELSE issued
         /\ wizard' =
                IF r.status = 201
                THEN [wizard EXCEPT !.bookingId = r.body.id,
                                    !.calls[i] = [pc |-> "createPaymentIntent",
                                                  currentStep |-> call.currentStep,
                                                  totalAmount |-> call.totalAmount,
                                                  booking |-> r.body]]
                ELSE [wizard EXCEPT !.calls = RemoveAt(@, i)]
         /\ ret' = [op |-> "POST /api/bookings", request |-> body,
                    status |-> r.status, body |-> r.body]
    /\ UNCHANGED <<experiences, now, requests, paymentForm>>

\* POST /api/create-payment-intent is handled and answered:
\* createPaymentIntentMutation's onSuccess and nextStep to its end, with the
\* currentStep of the render the call was made in
CreatePaymentIntentMutation ==
    /\ \E i \in 1..Len(wizard.calls) :
         LET call == wizard.calls[i]
             body == [amount |-> Num(call.totalAmount), bookingId |-> Str(call.booking.id)]
             r == createPaymentIntentRoute(bookings, body, now)
             step == IF r.status = 200 /\ call.currentStep < 4
                     THEN call.currentStep + 1
                     ELSE wizard.currentStep
         IN
         /\ call.pc = "createPaymentIntent"
         /\ bookings' = r.bookings
         /\ wizard' = [wizard EXCEPT
                !.clientSecret = IF r.status = 200 THEN r.body.clientSecret ELSE @,
                !.currentStep = step,
                !.calls = RemoveAt(@, i)]
         /\ paymentForm' = Rendered(step, paymentForm)
         /\ ret' = [op |-> "POST /api/create-payment-intent", request |-> body,
                    status |-> r.status, body |-> r.body]
    /\ UNCHANGED <<experiences, uuidCount, now, issued, requests>>

\* a request of nextStep gets no answer (fetch rejects): the catch block
MutationFails ==
    /\ \E i \in 1..Len(wizard.calls) :
         /\ wizard.calls[i].pc \in {"createBooking", "createPaymentIntent"}
         /\ wizard' = [wizard EXCEPT !.calls = RemoveAt(@, i)]
         /\ ret' = [op |-> "nextStep", currentStep |-> wizard.calls[i].currentStep,
                    toast |-> "Booking Error"]
    /\ UNCHANGED <<experiences, bookings, uuidCount, now, issued, requests, paymentForm>>

\* previousStep; the button is rendered below step 4 and disabled on step 1
PreviousStep ==
    /\ wizard.currentStep \in {2, 3}
    /\ wizard' = [wizard EXCEPT !.currentStep = wizard.currentStep - 1]
    /\ paymentForm' = Rendered(wizard.currentStep - 1, paymentForm)
    /\ ret' = [op |-> "previousStep", currentStep |-> wizard.currentStep]
    /\ UNCHANGED <<experiences, bookings, uuidCount, now, issued, requests>>

\* the terms checkbox
SetTermsAccepted ==
    /\ paymentForm.mounted
    /\ paymentForm' = [paymentForm EXCEPT !.termsAccepted = ~paymentForm.termsAccepted]
    /\ ret' = [op |-> "setTermsAccepted", checked |-> ~paymentForm.termsAccepted]
    /\ UNCHANGED <<experiences, bookings, uuidCount, now, issued, requests, wizard>>

\* the card inputs
SetCardData ==
    /\ paymentForm.mounted
    /\ \E cardData \in CardInputs :
         /\ paymentForm' = [paymentForm EXCEPT !.cardData = cardData]
         /\ ret' = [op |-> "setCardData", cardData |-> cardData]
    /\ UNCHANGED <<experiences, bookings, uuidCount, now, issued, requests, wizard>>

\* handleSubmit that does not look at the card fields
handleSubmitUnchecked(termsAccepted, cardData) ==
    IF ~termsAccepted THEN "Terms Required" ELSE "send"

\* the checks of handleSubmit: the toast it returns with, or "send"
handleSubmit(termsAccepted, cardData) ==
    IF ~termsAccepted THEN "Terms Required"
    ELSE IF cardData.number = "" \/ cardData.expiry = "" \/ cardData.cvc = ""
            \/ cardData.name = ""
    THEN "Payment Information Required"
    ELSE "send"

\* handleSubmit up to `await new Promise(resolve => setTimeout(resolve, 2000))`,
\* or to its return. The submit button is disabled without the terms and while
\* isProcessing; the call keeps the bookingId prop of its render
HandleSubmit ==
    /\ paymentForm.mounted
    /\ paymentForm.termsAccepted
    /\ ~paymentForm.isProcessing
    /\ LET outcome == handleSubmit(paymentForm.termsAccepted, paymentForm.cardData) IN
       /\ paymentForm' =
              IF outcome = "send"
              THEN [paymentForm EXCEPT
                        !.isProcessing = TRUE,
                        !.submits = Append(@, [pc |-> "setTimeout",
                                               instance |-> paymentForm.instance,
                                               bookingId |-> wizard.bookingId,
                                               since |-> now])]
              ELSE paymentForm
       /\ ret' = [op |-> "handleSubmit", outcome |-> outcome,
                  termsAccepted |-> paymentForm.termsAccepted,
                  cardData |-> paymentForm.cardData]
    /\ UNCHANGED <<experiences, bookings, uuidCount, now, issued, requests, wizard>>

\* the 2000 ms have passed: handleSubmit reads the clock and sends confirm-payment
TimeoutElapsed ==
    /\ \E i \in 1..Len(paymentForm.submits) :
         LET call == paymentForm.submits[i] IN
         /\ call.pc = "setTimeout"
         /\ now > call.since
         /\ paymentForm' = [paymentForm EXCEPT !.submits[i] =
                [pc |-> "confirm-payment", instance |-> call.instance,
                 body |-> [paymentIntentId |-> Str(mockPaymentIntentId(now)),
                           bookingId |-> Str(call.bookingId)]]]
         /\ ret' = [op |-> "setTimeout", instance |-> call.instance]
    /\ UNCHANGED <<experiences, bookings, uuidCount, now, issued, requests, wizard>>

\* PaymentForm after the finally block of a handleSubmit call of instance
\* `instance`: setIsProcessing(false) reaches the instance if it is still mounted
Finally(pf, instance, i) ==
    [pf EXCEPT !.submits = RemoveAt(@, i),
               !.isProcessing = IF pf.mounted /\ pf.instance = instance THEN FALSE ELSE @]

\* POST /api/confirm-payment is handled and answered: handleSubmit to its end.
\* onPaymentSuccess is handlePaymentSuccess, onPaymentError is handlePaymentError
ConfirmPayment ==
    /\ \E i \in 1..Len(paymentForm.submits) :
         LET call == paymentForm.submits[i]
             r == confirmPaymentRoute(bookings, call.body)
             success == r.status = 200 /\ r.body.success
             step == IF success THEN 4 ELSE wizard.currentStep
         IN
         /\ call.pc = "confirm-payment"
         /\ bookings' = r.bookings
         /\ wizard' = [wizard EXCEPT !.currentStep = step]
         /\ paymentForm' = Rendered(step, Finally(paymentForm, call.instance, i))
         /\ ret' = [op |-> "POST /api/confirm-payment", request |-> call.body,
                    status |-> r.status, body |-> r.body, instance |-> call.instance,
                    onPaymentSuccess |-> IF success THEN 1 ELSE 0,
                    onPaymentError |-> IF success THEN 0 ELSE 1]
    /\ UNCHANGED <<experiences, uuidCount, now, issued, requests>>

\* confirm-payment gets no answer (fetch rejects): the catch block and finally
ConfirmPaymentFails ==
    /\ \E i \in 1..Len(paymentForm.submits) :
         LET call == paymentForm.submits[i] IN
         /\ call.pc = "confirm-payment"
         /\ paymentForm' = Finally(paymentForm, call.instance, i)
         /\ ret' = [op |-> "confirm-payment failed", request |-> call.body,
                    instance |-> call.instance,
                    onPaymentSuccess |-> 0, onPaymentError |-> 1]
    /\ UNCHANGED <<experiences, bookings, uuidCount, now, issued, requests, wizard>>

\* the reference number step 4 renders:
\* confirmedBooking?.referenceNumber || 'SM-2024-001234'
shownReferenceNumber(w) ==
    IF w.confirmedBooking = nullObject THEN "SM-2024-001234"
    ELSE IF w.confirmedBooking.referenceNumber = "" THEN "SM-2024-001234"
    ELSE w.confirmedBooking.referenceNumber

WizardNext ==
    \/ Tick
    \/ HandleExperienceSelect
    \/ FillDetails
    \/ NextStep
    \/ FormTriggered
    \/ CreateBookingMutation
    \/ CreatePaymentIntentMutation
    \/ MutationFails
    \/ PreviousStep
    \/ SetTermsAccepted
    \/ SetCardData
    \/ HandleSubmit
    \/ TimeoutElapsed
    \/ ConfirmPayment
    \/ ConfirmPaymentFails

WizardSpec == Init /\ [][WizardNext]_vars

\* BookingForm alone, with dates and participant counts that vary: the steps of
\* the wizard without the inputs and the submit of PaymentForm

\* what the visitor enters on step 2: a stay of two days, a check-out before the
\* check-in (across the end of February), and a check-out left empty
StayDetails ==
    GuestDetails
    \cup {[checkinDate |-> "2025-03-02", checkoutDate |-> "2025-02-27",
           participants |-> 3, firstName |-> "A", lastName |-> "B",
           email |-> "a@b.com", phone |-> "123"],
          [checkinDate |-> "2025-01-01", checkoutDate |-> "", participants |-> 5,
           firstName |-> "A", lastName |-> "B", email |-> "a@b.com", phone |-> "123"]}

\* the visitor fills the fields of step 2 with any of these
FillStayDetails ==
    /\ wizard.currentStep = 2
    /\ \E details \in StayDetails :
         /\ wizard' = [wizard EXCEPT !.form = Spread(wizard.form, details)]
         /\ ret' = [op |-> "input", details |-> details]
    /\ UNCHANGED <<experiences, bookings, uuidCount, now, issued, requests, paymentForm>>

BookingFormNext ==
    \/ Tick
    \/ HandleExperienceSelect
    \/ FillStayDetails
    \/ NextStep
    \/ FormTriggered
    \/ CreateBookingMutation
    \/ CreatePaymentIntentMutation
    \/ MutationFails
    \/ PreviousStep

BookingFormSpec == Init /\ [][BookingFormNext]_vars

----------------------------------------------------------------------------
\* Properties

\* ref is SM-<year as 4 digits>-<6 digits that denote a number in 0..999998>
WellFormedReference(ref, year) ==
    /\ Len(ref) = 14
    /\ SubSeq(ref, 1, 3) = "SM-"
    /\ IsDigits(SubSeq(ref, 4, 7))
    /\ ParseDigits(SubSeq(ref, 4, 7)) = year
    /\ SubSeq(ref, 8, 8) = "-"
    /\ IsDigits(SubSeq(ref, 9, 14))
    /\ ParseDigits(SubSeq(ref, 9, 14)) \in 0..999998

\* the columns of a booking that are fixed at creation
FixedColumns == BookingColumns \ PaymentColumns

\* the step is a call of operation op: every operation leaves its name in ret,
\* and only the passing of time changes the clock
StepOf(op) ==
    /\ now' = now
    /\ ret'.op = op

\* C1: the booking createBooking returns is stored under the returned id, is
\* 'pending' with a null payment-intent id, has null specialRequests when none
\* were supplied, and carries a reference number SM-<year of creation>-<6 digits>
\* whose 6 digits are a zero-padded integer in 0..999998.
C1_CreateBookingResult ==
    ret.op = "createBooking" =>
        LET b == ret.value IN
        /\ DOMAIN b = BookingColumns
        /\ getBooking(bookings, b.id) = b
        /\ b.paymentStatus = "pending"
        /\ b.stripePaymentIntentId = null
        /\ (ret.insertBooking.specialRequests = undefined => b.specialRequests = null)
        /\ WellFormedReference(b.referenceNumber, getFullYear(b.createdAt))

\* C1 witness: a booking created without special requests in the second year,
\* whose random draw needed padding
C1_Witness ==
    /\ ret.op = "createBooking"
    /\ ret.insertBooking.specialRequests = undefined
    /\ ret.value.specialRequests = null
    /\ ret.value.referenceNumber = "SM-2026-000042"

\* C2: no two stored bookings share a reference number.
C2_ReferenceNumbersUnique ==
    \A i, j \in 1..Len(bookings) :
        i # j => bookings[i].value.referenceNumber # bookings[j].value.referenceNumber

\* C3: the bookings created so far have pairwise distinct identifiers, each is
\* in the store, and every booking is stored under its own id.
C3_IdentifiersDistinct ==
    /\ \A i, j \in 1..Len(issued) : i # j => issued[i].id # issued[j].id
    /\ \A i \in 1..Len(issued) : MapHas(bookings, issued[i].id)
    /\ \A i \in 1..Len(bookings) : bookings[i].key = bookings[i].value.id
    /\ Len(bookings) = Len(issued)

\* C3 witness: two bookings have been created
C3_Witness ==
    /\ Len(issued) >= 2
    /\ Len(bookings) >= 2

\* C4: looking up the reference number of any booking createBooking has returned
\* yields the record with that booking's id, equal to it in every column but the
\* payment columns.
C4_LookupByReferenceReturnsIssued ==
    \A i \in 1..Len(issued) :
        LET found == getBookingByReference(bookings, issued[i].referenceNumber) IN
        /\ found # undefinedObject
        /\ found.id = issued[i].id
        /\ \A c \in FixedColumns : found[c] = issued[i][c]

\* what updateBookingPaymentStatus promises for an id that is in the store, given
\* whether the paymentIntentId argument counts as supplied
UpdateOfStoredId(supplied) ==
    (StepOf("updateBookingPaymentStatus") /\ MapHas(bookings, ret'.id)) =>
        /\ ret'.value.paymentStatus = ret'.status
        /\ getBooking(bookings', ret'.id) = ret'.value
        /\ ret'.value.stripePaymentIntentId =
               IF supplied THEN ret'.paymentIntentId
               ELSE getBooking(bookings, ret'.id).stripePaymentIntentId

\* C5 as stated: on a stored id the record returned and stored has the given
\* status, and the paymentIntentId argument if one was supplied, the prior
\* payment-intent id otherwise.
C5_AnySuppliedIdIsStored ==
    [][UpdateOfStoredId(ret'.paymentIntentId # undefined)]_vars

\* C5 amended: on a stored id the record returned and stored has the given
\* status, and the paymentIntentId argument if a non-empty one was supplied, the
\* prior payment-intent id otherwise (no argument, or the empty string).
C5_NonEmptySuppliedIdIsStored ==
    [][UpdateOfStoredId(~Falsy(ret'.paymentIntentId))]_vars

\* C5 witness: an update with an empty paymentIntentId has kept the prior id
C5_Witness ==
    /\ ret.op = "updateBookingPaymentStatus"
    /\ ret.paymentIntentId = ""
    /\ ret.value # undefinedObject
    /\ ret.value.paymentStatus = "failed"
    /\ ret.value.stripePaymentIntentId = "pi_mock_0"

\* C6: updateBookingPaymentStatus on an id that is not in the store returns
\* undefined and leaves the store as it was.
C6_UpdateOfUnknownId ==
    [][(StepOf("updateBookingPaymentStatus") /\ ~MapHas(bookings, ret'.id)) =>
           /\ ret'.value = undefinedObject
           /\ bookings' = bookings
           /\ experiences' = experiences]_vars

\* C6 witness: an update of an unknown id has returned undefined while the store
\* holds a booking
C6_Witness ==
    /\ ret.op = "updateBookingPaymentStatus"
    /\ ~MapHas(bookings, ret.id)
    /\ ret.value = undefinedObject
    /\ Len(bookings) >= 1

\* the request carries a non-empty paymentIntentId and the id of a stored booking
ConfirmsStoredBooking(request, m) ==
    /\ IsStr(Field(request, "paymentIntentId"))
    /\ Field(request, "paymentIntentId").str # ""
    /\ IsStr(Field(request, "bookingId"))
    /\ MapHas(m, Field(request, "bookingId").str)

\* C7: confirm-payment with a non-empty paymentIntentId and the id of a stored
\* booking answers success with paymentStatus 'succeeded', and the stored booking
\* is then 'completed' with the supplied payment-intent id, whatever it was before.
C7_ConfirmPaymentCompletes ==
    (/\ ret.op = "POST /api/confirm-payment"
     /\ ConfirmsStoredBooking(ret.request, bookings)) =>
        LET stored == getBooking(bookings, ret.request.bookingId.str) IN
        /\ ret.status = 200
        /\ ret.body.success
        /\ ret.body.paymentStatus = "succeeded"
        /\ ret.body.booking = stored
        /\ stored.paymentStatus = "completed"
        /\ stored.stripePaymentIntentId = ret.request.paymentIntentId.str

\* C7 witness: a confirmation has completed a stored booking
C7_Witness ==
    /\ ret.op = "POST /api/confirm-payment"
    /\ ConfirmsStoredBooking(ret.request, bookings)
    /\ ret.status = 200
    /\ getBooking(bookings, ret.request.bookingId.str).paymentStatus = "completed"
    /\ getBooking(bookings, ret.request.bookingId.str).stripePaymentIntentId = "pi_client"

\* C8: a confirm-payment answer with success true means the named booking is in
\* the store and 'completed'; a well-formed request that names a booking the
\* store does not hold is answered 404.
C8_ConfirmPaymentOfUnknownBookingIs404 ==
    (/\ ret.op = "POST /api/confirm-payment"
     /\ ~Not(Field(ret.request, "paymentIntentId"))
     /\ ~Not(Field(ret.request, "bookingId"))) =>
        IF MapHas(bookings, ret.request.bookingId.str)
        THEN /\ ret.status = 200
             /\ ret.body.success
             /\ getBooking(bookings, ret.request.bookingId.str).paymentStatus = "completed"
        ELSE ret.status = 404

\* the payment columns of every booking stored before the step are the same after it
PaymentColumnsKept ==
    \A i \in 1..Len(bookings) :
        /\ MapHas(bookings', bookings[i].key)
        /\ \A c \in PaymentColumns :
               getBooking(bookings', bookings[i].key)[c] = bookings[i].value[c]

\* C9: the four routes other than create-payment-intent and confirm-payment leave
\* the payment columns of every stored booking unchanged, so that a step that
\* changes them is a create-payment-intent or a confirm-payment request.
C9_OnlyPaymentRoutesChangePaymentColumns ==
    [][/\ (\/ StepOf("GET /api/experiences")
           \/ StepOf("GET /api/experiences/:id")
           \/ StepOf("POST /api/bookings")
           \/ StepOf("GET /api/bookings/:reference")) => PaymentColumnsKept
       /\ ~PaymentColumnsKept => (\/ StepOf("POST /api/create-payment-intent")
                                  \/ StepOf("POST /api/confirm-payment"))]_vars

\* C9 witness: a booking has been created while another one was already completed
C9_Witness ==
    /\ ret.op = "POST /api/bookings"
    /\ ret.status = 201
    /\ \E i \in 1..Len(bookings) :
           /\ bookings[i].key # ret.body.id
           /\ bookings[i].value.paymentStatus = "completed"

\* C10: every stored booking stays in the store, under the same id and at the
\* same position, with all columns but the payment columns unchanged; and an
\* updateBookingPaymentStatus leaves every booking but the named one unchanged.
C10_FixedColumnsNeverChange ==
    [][/\ Len(bookings') >= Len(bookings)
       /\ \A i \in 1..Len(bookings) :
              /\ bookings'[i].key = bookings[i].key
              /\ DOMAIN bookings'[i].value = DOMAIN bookings[i].value
              /\ \A c \in FixedColumns : bookings'[i].value[c] = bookings[i].value[c]
              /\ (StepOf("updateBookingPaymentStatus") /\ bookings[i].key # ret'.id)
                     => bookings'[i] = bookings[i]]_vars

\* C10 witness: one of two stored bookings has been updated, the other is as created
C10_Witness ==
    /\ ret.op = "updateBookingPaymentStatus"
    /\ ret.value # undefinedObject
    /\ ret.value.paymentStatus = "failed"
    /\ \E i \in 1..Len(bookings) :
           /\ bookings[i].key # ret.id
           /\ bookings[i].value.paymentStatus = "pending"

\* C11: in every step the identifiers in the store after the step include those
\* before it; a createBooking step adds exactly one identifier, and no other
\* step adds any.
C11_BookingsNeverDeleted ==
    [][/\ MapKeys(bookings) \subseteq MapKeys(bookings')
       /\ StepOf("createBooking") =>
              Cardinality(MapKeys(bookings') \ MapKeys(bookings)) = 1
       /\ MapKeys(bookings') # MapKeys(bookings) => StepOf("createBooking")]_vars

\* C11 witness: a second booking has joined the first, which has been updated
C11_Witness ==
    /\ ret.op = "createBooking"
    /\ Cardinality(MapKeys(bookings)) = 2
    /\ bookings[1].value.paymentStatus = "failed"

\* the amount of the request is missing, or a number that is not positive
AmountMissingOrNotPositive(request) ==
    \/ Field(request, "amount") = Absent
    \/ IsNum(Field(request, "amount")) /\ Field(request, "amount").num <= 0

\* C12: create-payment-intent with the amount missing or not positive answers 400
\* with the message that a valid amount is required and leaves the store as it
\* was, also when the request names a stored booking.
C12_InvalidAmountIsRejected ==
    [][(StepOf("POST /api/create-payment-intent")
          /\ AmountMissingOrNotPositive(ret'.request)) =>
           /\ ret'.status = 400
           /\ ret'.body = [message |-> "Valid amount is required"]
           /\ bookings' = bookings
           /\ experiences' = experiences]_vars

\* C12 witness: a request with amount 0 that names a stored booking was rejected
C12_Witness ==
    /\ ret.op = "POST /api/create-payment-intent"
    /\ ret.request = [amount |-> Num(0), bookingId |-> Str(uuid(1))]
    /\ MapHas(bookings, uuid(1))
    /\ ret.status = 400

\* C13: create-payment-intent with a positive amount answers 200 with a
\* paymentIntentId; a stored booking named by bookingId is then 'processing' with
\* that paymentIntentId; without a bookingId the store is as it was.
C13_PaymentIntentMarksBooking ==
    [][(/\ StepOf("POST /api/create-payment-intent")
        /\ IsNum(Field(ret'.request, "amount"))
        /\ ret'.request.amount.num > 0) =>
           LET bookingId == Field(ret'.request, "bookingId") IN
           /\ ret'.status = 200
           /\ ret'.body.paymentIntentId # ""
           /\ (IsStr(bookingId) /\ MapHas(bookings, bookingId.str)) =>
                  LET stored == getBooking(bookings', bookingId.str) IN
                  /\ stored.paymentStatus = "processing"
                  /\ stored.stripePaymentIntentId = ret'.body.paymentIntentId
           /\ bookingId = Absent => bookings' = bookings]_vars

\* C13 witness: a payment intent was created for a stored booking at the second
\* clock reading
C13_Witness ==
    /\ ret.op = "POST /api/create-payment-intent"
    /\ ret.status = 200
    /\ ret.body.paymentIntentId = "pi_mock_1"
    /\ IsStr(Field(ret.request, "bookingId"))
    /\ MapHas(bookings, ret.request.bookingId.str)
    /\ getBooking(bookings, ret.request.bookingId.str).paymentStatus = "processing"

----------------------------------------------------------------------------
\* C16: POST /api/bookings is all-or-nothing: a payload that fails validation is
\* answered 400 and leaves the store as it was; a payload that passes is answered
\* 201 and adds exactly one booking, 'pending', with the payload's participants,
\* and leaves every booking stored before as it was.
C16_PostBookingsAllOrNothing ==
    [][StepOf("POST /api/bookings") =>
           IF ZodErrors(ret'.request) # {}
           THEN /\ ret'.status = 400
                /\ bookings' = bookings
                /\ experiences' = experiences
           ELSE /\ ret'.status = 201
                /\ Len(bookings') = Len(bookings) + 1
                /\ SubSeq(bookings', 1, Len(bookings)) = bookings
                /\ Cardinality(MapKeys(bookings') \ MapKeys(bookings)) = 1
                /\ LET stored == bookings'[Len(bookings')].value IN
                   /\ stored = ret'.body
                   /\ stored.paymentStatus = "pending"
                   /\ stored.participants = ret'.request.participants.num
                /\ experiences' = experiences]_vars

\* C16 witness: a payload that fails validation has been answered 400 while a
\* booking made from a valid payload is in the store
C16_Witness ==
    /\ ret.op = "POST /api/bookings"
    /\ ret.request = invalidBody
    /\ ret.status = 400
    /\ Len(bookings) = 1
    /\ bookings[1].value.participants = 2

\* the columns of a booking the store assigns
ServerAssigned == OmittedColumns

\* C17: whatever a POST /api/bookings body carries, the booking made from it has
\* the columns of the schema only, and its id, referenceNumber, createdAt,
\* paymentStatus and stripePaymentIntentId are the ones the store generated: the
\* id of the generator, a reference of the year of creation, the clock reading,
\* 'pending' and null.
C17_ServerAssignedFieldsNotFromBody ==
    (ret.op = "POST /api/bookings" /\ ret.status = 201) =>
        LET b == ret.body IN
        /\ DOMAIN b = BookingColumns
        /\ getBooking(bookings, b.id) = b
        /\ b.id = uuid(uuidCount)
        /\ WellFormedReference(b.referenceNumber, getFullYear(b.createdAt))
        /\ b.createdAt \in 0..now
        /\ b.paymentStatus = "pending"
        /\ b.stripePaymentIntentId = null

\* C17 witness: a body that carries all five server-assigned fields has made a
\* booking, and none of the five has the value the body carried
C17_Witness ==
    /\ ret.op = "POST /api/bookings"
    /\ ret.status = 201
    /\ ServerAssigned \subseteq DOMAIN ret.request
    /\ ret.body.id = uuid(2)
    /\ ret.request.id = Str(uuid(1))
    /\ ret.body.referenceNumber # ret.request.referenceNumber.str
    /\ ret.body.createdAt = 1
    /\ ret.request.createdAt = Num(0)

\* C18: every stored booking has a participant count of at least 1 (a payload
\* with participants 0 or negative creates no booking).
C18_ParticipantsAtLeastOne ==
    \A i \in 1..Len(bookings) : bookings[i].value.participants >= 1

\* the fields of a payload that are missing or invalid: the keys that are absent
\* or of the wrong type, and email when it is not a well-formed address
MissingOrInvalid(body) ==
    {k \in InsertColumns : Issue(body, k) # ""}
    \cup {k \in {"email"} : IsStr(Field(body, k)) /\ ~WellFormedEmail(body[k].str)}

\* the fields named in the validation errors of a response
ReportedFields(response) ==
    IF response.status = 400 THEN {e.path : e \in response.body.errors} ELSE {}

\* C19: the fields named in the validation errors of a POST /api/bookings
\* response are exactly the missing or invalid fields of the payload, a
\* malformed email included.
C19_ValidationReportsEveryInvalidField ==
    ret.op = "POST /api/bookings" =>
        ReportedFields(ret) = MissingOrInvalid(ret.request)

\* C20: GET /api/bookings/:reference answers 200 with a stored booking of the
\* requested reference if and only if some stored booking has that reference,
\* and 404 otherwise; GET /api/experiences/:id answers 200 with the experience
\* of that id if and only if it is in the store, and 404 otherwise; neither
\* changes the store.
C20_GetAnswers200IffStored ==
    [][/\ StepOf("GET /api/bookings/:reference") =>
            /\ ret'.status \in {200, 404}
            /\ ret'.status = 200 <=>
                   \E i \in 1..Len(bookings) :
                       bookings[i].value.referenceNumber = ret'.reference
            /\ ret'.status = 200 =>
                   /\ \E i \in 1..Len(bookings) : bookings[i].value = ret'.body
                   /\ ret'.body.referenceNumber = ret'.reference
            /\ bookings' = bookings /\ experiences' = experiences
       /\ StepOf("GET /api/experiences/:id") =>
            /\ ret'.status \in {200, 404}
            /\ ret'.status = 200 <=> MapHas(experiences, ret'.id)
            /\ ret'.status = 200 =>
                   /\ ret'.body = MapGet(experiences, ret'.id)
                   /\ ret'.body.id = ret'.id
            /\ bookings' = bookings /\ experiences' = experiences]_vars

\* C20 witness: the reference of the second of two stored bookings has been
\* looked up and answered with that booking
C20_Witness ==
    /\ ret.op = "GET /api/bookings/:reference"
    /\ ret.status = 200
    /\ Len(bookings) = 2
    /\ ret.body = bookings[2].value
    /\ ret.body.referenceNumber # bookings[1].value.referenceNumber

----------------------------------------------------------------------------
\* the store that the handlers of reqs leave when each runs from its start to
\* its end before the next one starts, each with the identifier, random draw and
\* clock reading it had
RECURSIVE Sequential(_, _)
Sequential(m, reqs) ==
    IF reqs = <<>> THEN m
    ELSE LET q == Head(reqs)
             after ==
                 IF q.op = "POST /api/bookings"
                 THEN postBookingsRoute(m, q.request, q.id, q.draw, q.t).bookings
                 ELSE IF q.op = "POST /api/create-payment-intent"
                 THEN createPaymentIntentRoute(m, q.request, q.t).bookings
                 ELSE confirmPaymentRoute(m, q.request).bookings
         IN Sequential(after, Tail(reqs))

\* the positions in requests of the booking creations that succeeded
Creations == {i \in 1..Len(requests) :
                  requests[i].op = "POST /api/bookings" /\ requests[i].response.status = 201}

\* the positions after position c of the payment requests that got past their
\* checks and name booking id
UpdatesOf(id, c) ==
    {j \in (c + 1)..Len(requests) :
         /\ requests[j].op # "POST /api/bookings"
         /\ requests[j].response.status = 200
         /\ Field(requests[j].request, "bookingId") = Str(id)}

\* the payment columns request q writes
PaymentColumnsWritten(q) ==
    IF q.op = "POST /api/create-payment-intent"
    THEN [paymentStatus |-> "processing", stripePaymentIntentId |-> mockPaymentIntentId(q.t)]
    ELSE [paymentStatus |-> "completed",
          stripePaymentIntentId |-> q.request.paymentIntentId.str]

Max(S) == CHOOSE x \in S : \A y \in S : y <= x

\* C14: however the handlers of booking creations and payment updates are
\* interleaved at their awaits, there is one stored booking with its own id per
\* successful creation, each with the columns it was created with and the payment
\* columns of the last update that named it, and the store is the one the same
\* requests leave when handled one after the other.
C14_ConcurrentRequestsSerialize ==
    /\ Len(bookings) = Cardinality(Creations)
    /\ Cardinality(MapKeys(bookings)) = Cardinality(Creations)
    /\ \A c \in Creations :
         LET created == requests[c].response.body
             stored == getBooking(bookings, created.id)
         IN
         /\ MapHas(bookings, created.id)
         /\ \A d \in Creations : d # c => requests[d].response.body.id # created.id
         /\ \A k \in FixedColumns : stored[k] = created[k]
         /\ [k \in PaymentColumns |-> stored[k]] =
                IF UpdatesOf(created.id, c) = {}
                THEN [paymentStatus |-> "pending", stripePaymentIntentId |-> null]
                ELSE PaymentColumnsWritten(requests[Max(UpdatesOf(created.id, c))])
    /\ bookings = Sequential(<<>>, requests)

\* C14 witness: two creations and a confirmation of the first booking are in
\* flight together; the confirmation, entered last, has ended while both
\* creations are still at their await
C14_Witness ==
    /\ Len(requests) = 3
    /\ requests[1].op = "POST /api/bookings" /\ requests[1].pc = "await"
    /\ requests[2].op = "POST /api/bookings" /\ requests[2].pc = "await"
    /\ requests[3].op = "POST /api/confirm-payment" /\ requests[3].pc = "done"
    /\ requests[3].request.bookingId = Str(requests[1].response.body.id)
    /\ Len(bookings) = 2
    /\ bookings[1].value.paymentStatus = "completed"

\* C15: an assignment a caller makes to a booking object the store returned
\* changes nothing the store returns for any id afterwards.
C15_CallerAssignmentLeavesStore ==
    [][StepOf("caller assignment") =>
           \A id \in LookupIds : getBooking(bookings', id) = getBooking(bookings, id)]_vars

----------------------------------------------------------------------------
\* the catalog, in its order
CatalogIds ==
    <<"meditation-retreats", "monastery-treks", "cultural-workshops", "sunrise-tours">>

\* C21: whatever the API is asked, the experience collection is the four catalog
\* entries in catalog order, as seeded, and GET /api/experiences returns them in
\* that order.
C21_ExperiencesAreTheCatalog ==
    /\ Len(experiences) = 4
    /\ \A i \in 1..4 :
         /\ experiences[i].key = CatalogIds[i]
         /\ experiences[i].value = defaultExperiences[i]
         /\ experiences[i].value.id = CatalogIds[i]
    /\ ret.op = "GET /api/experiences" =>
         /\ ret.status = 200
         /\ [i \in 1..Len(ret.body) |-> ret.body[i].id] = CatalogIds
         /\ ret.body = defaultExperiences

\* C21 witness: the experiences have been listed after two bookings were made
\* and one of them paid
C21_Witness ==
    /\ ret.op = "GET /api/experiences"
    /\ Len(bookings) = 2
    /\ bookings[1].value.paymentStatus = "completed"
    /\ ret.body[4].id = "sunrise-tours"

\* C22: no stored booking is 'failed': the status of every stored booking is
\* 'pending', 'processing' or 'completed'.
C22_NoBookingIsFailed ==
    \A i \in 1..Len(bookings) :
        /\ bookings[i].value.paymentStatus # "failed"
        /\ bookings[i].value.paymentStatus \in {"pending", "processing", "completed"}

\* C22 witness: the three statuses the flow produces have all been reached: a
\* completed and a processing booking are stored, the latter created 'pending'
C22_Witness ==
    /\ Len(bookings) = 2
    /\ bookings[1].value.paymentStatus = "completed"
    /\ bookings[2].value.paymentStatus = "processing"
    /\ issued[2].paymentStatus = "pending"

\* the body names an experience that is not stored
NamesNoExperience(body) ==
    /\ IsStr(Field(body, "experienceId"))
    /\ ~MapHas(experiences, body.experienceId.str)

\* C24: a POST /api/bookings body that passes validation and names an experience
\* that is not stored is answered 201 and its booking is stored with that
\* experienceId.
C24_UnknownExperienceIsAccepted ==
    (/\ ret.op = "POST /api/bookings"
     /\ ZodErrors(ret.request) = {}
     /\ NamesNoExperience(ret.request)) =>
        /\ ret.status = 201
        /\ MapHas(bookings, ret.body.id)
        /\ getBooking(bookings, ret.body.id).experienceId = ret.request.experienceId.str
        /\ getExperience(experiences, ret.body.experienceId) = undefinedObject

\* C24 witness: a booking for 'no-such-experience' is in the store
C24_Witness ==
    /\ ret.op = "POST /api/bookings"
    /\ ret.status = 201
    /\ NamesNoExperience(ret.request)
    /\ \E i \in 1..Len(bookings) :
         /\ bookings[i].value.experienceId = "no-such-experience"
         /\ ~MapHas(experiences, bookings[i].value.experienceId)

\* the handler entered by the step: the one the step has added to requests
Entered(op) ==
    /\ Len(requests') = Len(requests) + 1
    /\ requests'[Len(requests')].op = op
    /\ requests'[Len(requests')].response.status = 200

\* the stored booking a payment request names, undefined when it names none
NamedBooking(m, request) ==
    IF IsStr(Field(request, "bookingId"))
    THEN getBooking(m, request.bookingId.str)
    ELSE undefinedObject

\* C23: no payment status is terminal. A create-payment-intent request that
\* names a stored booking leaves it 'processing' whatever its status was,
\* 'completed' included, and a confirm-payment request that names a stored
\* booking leaves it 'completed' whatever its status was, 'pending' included.
C23_NoStatusIsTerminal ==
    [][/\ Entered("POST /api/create-payment-intent") =>
            LET request == requests'[Len(requests')].request IN
            NamedBooking(bookings, request) # undefinedObject =>
                NamedBooking(bookings', request).paymentStatus = "processing"
       /\ Entered("POST /api/confirm-payment") =>
            LET request == requests'[Len(requests')].request IN
            NamedBooking(bookings, request) # undefinedObject =>
                NamedBooking(bookings', request).paymentStatus = "completed"]_vars

\* C23 witness: a booking was created, then confirmed without a payment intent
\* ('pending' to 'completed'), then named by a create-payment-intent request
\* ('completed' to 'processing'), and all three handlers have ended
C23_Witness ==
    /\ Len(requests) = 3
    /\ requests[1].op = "POST /api/bookings"
    /\ requests[1].response.status = 201
    /\ requests[2].op = "POST /api/confirm-payment"
    /\ requests[2].request.bookingId = Str(requests[1].response.body.id)
    /\ requests[2].response.body.booking.paymentStatus = "completed"
    /\ requests[3].op = "POST /api/create-payment-intent"
    /\ requests[3].request.bookingId = Str(requests[1].response.body.id)
    /\ requests[3].response.status = 200
    /\ \A i \in 1..3 : requests[i].pc = "done"
    /\ getBooking(bookings, requests[1].response.body.id).paymentStatus = "processing"

----------------------------------------------------------------------------
\* the booking stored under the wizard's bookingId
WizardBooking == getBooking(bookings, wizard.bookingId)

\* C25: the wizard is on its confirmation step only when the booking stored
\* under its bookingId is 'completed'.
C25_ConfirmationOnlyAfterPayment ==
    wizard.currentStep = 4 =>
        /\ WizardBooking # undefinedObject
        /\ WizardBooking.paymentStatus = "completed"

\* C26: one run of the wizard has at most one successful POST /api/bookings.
C26_AtMostOneBookingPerRun ==
    /\ Len(issued) <= 1
    /\ Len(bookings) <= 1

\* the steps in which a nextStep or previousStep call runs
NextOrPreviousRuns ==
    ret'.op \in {"nextStep", "previousStep", "form.trigger", "POST /api/bookings",
                 "POST /api/create-payment-intent"}

\* C27: currentStep stays in 1..4; a step of nextStep or previousStep changes it
\* by at most one; step 1 is left forwards only with an experience selected;
\* step 2 is left forwards by nextStep only with bookingId naming a stored
\* 'processing' booking; a failed request of nextStep leaves the step as it is.
C27_StepsAdvanceOneAtATime ==
    [][/\ wizard'.currentStep \in 1..4
       /\ NextOrPreviousRuns =>
            /\ wizard'.currentStep - wizard.currentStep \in {-1, 0, 1}
            /\ (wizard.currentStep = 1 /\ wizard'.currentStep > 1) =>
                   wizard.selectedExperience # nullObject
            /\ (wizard.currentStep # 3 /\ wizard'.currentStep = 3
                /\ wizard'.currentStep > wizard.currentStep) =>
                   LET booking == getBooking(bookings', wizard'.bookingId) IN
                   /\ booking # undefinedObject
                   /\ booking.paymentStatus = "processing"
            /\ (ret'.op = "nextStep" /\ "toast" \in DOMAIN ret') =>
                   wizard'.currentStep = wizard.currentStep]_vars

\* C28: a confirm-payment request of the wizard leaves the payment-intent id
\* that create-payment-intent stored on the booking as it is.
C28_ConfirmKeepsIssuedIntentId ==
    [][StepOf("POST /api/confirm-payment") =>
           LET before == NamedBooking(bookings, ret'.request) IN
           (before # undefinedObject /\ before.paymentStatus = "processing") =>
               NamedBooking(bookings', ret'.request).stripePaymentIntentId
                   = before.stripePaymentIntentId]_vars

\* C29: on the confirmation step of a booking the wizard created and paid, the
\* reference number shown is the referenceNumber of the booking stored under
\* the wizard's bookingId.
C29_ShownReferenceIsTheBookings ==
    (/\ wizard.currentStep = 4
     /\ WizardBooking # undefinedObject
     /\ WizardBooking.paymentStatus = "completed") =>
        shownReferenceNumber(wizard) = WizardBooking.referenceNumber

AllCardFieldsFilled(cardData) ==
    \A k \in {"number", "expiry", "cvc", "name"} : cardData[k] # ""

\* C30: handleSubmit goes on to send confirm-payment exactly when the terms are
\* accepted and the four card fields are non-empty, and is then processing;
\* every call that has sent the request ends with exactly one of
\* onPaymentSuccess and onPaymentError called, onPaymentSuccess exactly for a
\* 200 with success, and with isProcessing false in the form that made the call.
C30_SubmitSendsOnceAndSettles ==
    /\ ret.op = "handleSubmit" =>
         /\ ret.outcome = "send" <=>
                (ret.termsAccepted /\ AllCardFieldsFilled(ret.cardData))
         /\ ret.outcome = "send" =>
                /\ paymentForm.isProcessing
                /\ paymentForm.submits # <<>>
         /\ ret.outcome # "send" => ~paymentForm.isProcessing
    /\ ret.op \in {"POST /api/confirm-payment", "confirm-payment failed"} =>
         /\ ret.onPaymentSuccess + ret.onPaymentError = 1
         /\ ret.onPaymentSuccess = 1 <=>
                (ret.op = "POST /api/confirm-payment" /\ ret.status = 200
                 /\ ret.body.success)
         /\ (paymentForm.mounted /\ paymentForm.instance = ret.instance) =>
                ~paymentForm.isProcessing
         /\ \A i \in 1..Len(paymentForm.submits) :
                paymentForm.submits[i].instance # ret.instance

\* C30 witness: a call that sent confirm-payment got no answer and ended in
\* onPaymentError, in the form that is still mounted and no longer processing
C30_Witness ==
    /\ ret.op = "confirm-payment failed"
    /\ ret.onPaymentError = 1
    /\ paymentForm.mounted
    /\ paymentForm.instance = ret.instance
    /\ paymentForm.termsAccepted
    /\ AllCardFieldsFilled(paymentForm.cardData)
    /\ ~paymentForm.isProcessing

\* the total as stated: price x participants x max(1, days from check-in to
\* check-out) with both dates set, price x participants otherwise, 0 without a
\* selected experience
StatedTotal(selectedExperience, form) ==
    IF selectedExperience = nullObject THEN 0
    ELSE IF form.checkinDate # "" /\ form.checkoutDate # ""
    THEN parseFloat(selectedExperience.price) * form.participants
         * Max({1, dateDays(form.checkoutDate) - dateDays(form.checkinDate)})
    ELSE parseFloat(selectedExperience.price) * form.participants

\* C31: the total the wizard computes is the stated one; every amount nextStep
\* has computed on leaving step 2 is strictly positive, and the
\* create-payment-intent request carrying it is a positive number that the
\* route does not answer with 400.
C31_SentAmountIsPositive ==
    /\ calculateTotal(wizard.selectedExperience, wizard.form)
           = StatedTotal(wizard.selectedExperience, wizard.form)
    /\ \A i \in 1..Len(wizard.calls) :
           wizard.calls[i].pc \in {"createBooking", "createPaymentIntent"} =>
               wizard.calls[i].totalAmount > 0
    /\ ret.op = "POST /api/create-payment-intent" =>
           /\ IsNum(ret.request.amount)
           /\ ret.request.amount.num > 0
           /\ ret.status # 400

\* C31 witness: create-payment-intent was sent for a stored booking whose
\* check-out is before its check-in, with price x participants as the amount,
\* and answered 200
C31_Witness ==
    /\ ret.op = "POST /api/create-payment-intent"
    /\ ret.status = 200
    /\ LET b == getBooking(bookings, ret.request.bookingId.str) IN
       /\ b # undefinedObject
       /\ dateDays(b.checkoutDate) < dateDays(b.checkinDate)
       /\ ret.request.amount.num
              = parseFloat(getExperience(experiences, b.experienceId).price)
                * b.participants
====
